---- MODULE Spec2Model ----
(***************************************************************************)
(* WorkWise: the job matcher of the page, the catch-all API route with its *)
(* document store and auth provider, and the page's skill selection.       *)
(*                                                                         *)
(*   SpecMatch  findMatchedJobs as a pure function of (catalog, skills,    *)
(*              filter), every input drawn from bounded sets               *)
(*   Spec       handleRoute: concurrently handled requests over the shared *)
(*              connection handle and the two collections                  *)
(*   SpecPage   the page component: selection, save, auth events           *)
(***************************************************************************)
EXTENDS Integers, Sequences, FiniteSets, TLC

VARIABLES
    \* ---- matcher (SpecMatch) ----
    catalog,      \* skillsJobsData.jobs
    mSkills,      \* userSkills handed to findMatchedJobs
    mFilter,      \* jobFilter handed to findMatchedJobs
    mResult,      \* the value given to setMatchedJobs
    mPc,          \* "input" before the call, "done" after it
    \* ---- dashboard aggregator (SpecDash) ----
    dSkills,      \* skillsJobsData.skills, by name
    dUsers,       \* allUsers handed to getSkillFrequencyData
    dResult,      \* the {labels, data} it returns
    dPc,          \* "input" before the call, "done" after it
    \* ---- API route (Spec) ----
    client,       \* module-level `client`: "unset" or "set"
    db,           \* module-level `db`: "undef" or "ok"
    user_skills,  \* the user_skills collection, in natural (insertion) order
    status_checks,\* the status_checks collection
    now,          \* the clock read by new Date()
    nextId,       \* source of fresh _id / uuid values
    reqs,         \* per request: the handler's position and locals
    writeLog,     \* history: the requests whose replaceOne was applied, in order
    \* ---- page (SpecPage) ----
    loading,        \* useState(true)
    checkAuth,      \* checkAuth(): "session" (awaiting getSession), "loading", "done"
    user,           \* useState(null): "none" or the session user's id
    userSkills,     \* useState([])
    selectedSkills, \* useState([])
    matchedJobs,    \* useState([])
    jobFilter,      \* useState('all')
    allUsers,       \* useState([])
    activeTab,      \* useState('jobs')
    loads,          \* the calls of loadUserData and the fetch each awaits
    saves,          \* the calls of saveUserSkills: the body sent, the fetch awaited
    authEvent       \* history: the last event the onAuthStateChange callback handled

mvars == <<catalog, mSkills, mFilter, mResult, mPc>>
dvars == <<dSkills, dUsers, dResult, dPc>>
svars == <<client, db, user_skills, status_checks, now, nextId, reqs, writeLog>>

pvars == <<loading, checkAuth, user, userSkills, selectedSkills, matchedJobs, jobFilter,
           allUsers, activeTab, loads, saves, authEvent>>

vars == <<catalog, mSkills, mFilter, mResult, mPc,
          dSkills, dUsers, dResult, dPc,
          client, db, user_skills, status_checks, now, nextId, reqs, writeLog,
          loading, checkAuth, user, userSkills, selectedSkills, matchedJobs, jobFilter,
          allUsers, activeTab, loads, saves, authEvent>>

----------------------------------------------------------------------------
(* Bounds *)

MaxJobs == 3          \* longest enumerated job catalog
MaxReqs == 2          \* requests handled (concurrently) by the route
MaxLoads == 1         \* calls of loadUserData by the page
MaxSaves == 1         \* calls of saveUserSkills by the page
MaxUsers == 2         \* longest enumerated list of user records

----------------------------------------------------------------------------
(* Strings are sequences of one-character strings, so that toLowerCase and *)
(* replace act on them as they do in the code.                             *)

UpperChars == <<"A","B","C","D","E","F","G","H","I","J","K","L","M",
                "N","O","P","Q","R","S","T","U","V","W","X","Y","Z">>
LowerChars == <<"a","b","c","d","e","f","g","h","i","j","k","l","m",
                "n","o","p","q","r","s","t","u","v","w","x","y","z">>

ToLowerChar(c) ==
    IF \E i \in 1..Len(UpperChars) : UpperChars[i] = c
    THEN LowerChars[CHOOSE i \in 1..Len(UpperChars) : UpperChars[i] = c]
    ELSE c

\* String.prototype.toLowerCase
ToLowerCase(s) == [i \in 1..Len(s) |-> ToLowerChar(s[i])]

\* String.prototype.replace(pat, '') with a one-character string pattern:
\* only the FIRST occurrence is removed.
ReplaceFirst(s, pat) ==
    IF \E i \in 1..Len(s) : s[i] = pat
    THEN LET k == CHOOSE i \in 1..Len(s) :
                      s[i] = pat /\ \A j \in 1..(i-1) : s[j] # pat
         IN  SubSeq(s, 1, k-1) \o SubSeq(s, k+1, Len(s))
    ELSE s

\* The Job.type values of the catalog.
TypePermanent == "Permanent"
TypePartTime  == "Part-Time"
TypeOneTime   == "One-Time"
JobTypes == {TypePermanent, TypePartTime, TypeOneTime}

\* The values of the job-type <Select>.
FilterAll       == "all"
FilterPermanent == "permanent"
FilterPartTime  == "parttime"
FilterOneTime   == "onetime"
JobFilters == {FilterAll, FilterPermanent, FilterPartTime, FilterOneTime}

\* The characters of the strings above.
Chars(str) ==
    CASE str = "Permanent" -> <<"P","e","r","m","a","n","e","n","t">>
      [] str = "Part-Time" -> <<"P","a","r","t","-","T","i","m","e">>
      [] str = "One-Time"  -> <<"O","n","e","-","T","i","m","e">>
      [] str = "all"       -> <<"a","l","l">>
      [] str = "permanent" -> <<"p","e","r","m","a","n","e","n","t">>
      [] str = "parttime"  -> <<"p","a","r","t","t","i","m","e">>
      [] str = "onetime"   -> <<"o","n","e","t","i","m","e">>

\* job.type.toLowerCase().replace('-', ''), as characters, tabulated over the
\* types of the catalog
NormalizedType == [t \in JobTypes |-> ReplaceFirst(ToLowerCase(Chars(t)), "-")]
NormalizeType(type) == NormalizedType[type]

\* Skill names of the catalog (skillsJobsData.skills[*].name).
SkillNames == {"Coding", "Design", "Writing"}
SkillOrder == <<"Coding", "Design", "Writing">>

Range(seq) == {seq[i] : i \in 1..Len(seq)}

\* Array.prototype.includes
Includes(arr, x) == \E i \in 1..Len(arr) : arr[i] = x

\* A set of names as the array listing it in catalog order.
AsArray(S) == LET In(x) == x \in S IN SelectSeq(SkillOrder, In)

\* Every array of distinct skill names, in catalog order: the userSkills values.
NameArrays == {AsArray(S) : S \in SUBSET SkillNames}

\* The tag lists of the enumerated jobs.
TagNames == {"Coding", "Design"}
TagArrays == {AsArray(S) : S \in SUBSET TagNames}

----------------------------------------------------------------------------
(* findMatchedJobs *)

\* a.tags.filter(tag => userSkills.includes(tag)).length
MatchCount(job, skills) ==
    LET In(tag) == Includes(skills, tag) IN Len(SelectSeq(job.tags, In))

\* job.tags.some(tag => userSkills.includes(tag))
HasMatchingSkill(job, skills) ==
    \E i \in 1..Len(job.tags) : Includes(skills, job.tags[i])

\* Mutant: the type is compared without toLowerCase().
MatchesFilter_NoLowerCase(job, filter) ==
    filter = FilterAll \/ ReplaceFirst(Chars(job.type), "-") = Chars(filter)

\* jobFilter === 'all' || job.type.toLowerCase().replace('-', '') === jobFilter
MatchesFilter(job, filter) ==
    filter = FilterAll \/ NormalizeType(job.type) = Chars(filter)

\* Mutant: the comparator's operands swapped (ascending order).
Compare_Ascending(a, b, skills) ==
    MatchCount(a, skills) - MatchCount(b, skills)

\* The sort comparator: (a, b) => bMatches - aMatches
Compare(a, b, skills) == MatchCount(b, skills) - MatchCount(a, skills)

\* Array.prototype.sort is stable: x, the last element, goes behind every
\* element the comparator does not order after it.
InsertSorted(sorted, x, skills) ==
    LET before == {i \in 1..Len(sorted) : Compare(sorted[i], x, skills) <= 0}
        k == Cardinality(before)
    IN  SubSeq(sorted, 1, k) \o <<x>> \o SubSeq(sorted, k+1, Len(sorted))

RECURSIVE SortJobs(_, _)
SortJobs(arr, skills) ==
    IF Len(arr) <= 1 THEN arr
    ELSE InsertSorted(SortJobs(SubSeq(arr, 1, Len(arr)-1), skills),
                      arr[Len(arr)], skills)

\* The value findMatchedJobs hands to setMatchedJobs.
FindMatchedJobs(jobs, skills, filter) ==
    IF Len(skills) = 0 THEN <<>>
    ELSE LET Keep(job) == HasMatchingSkill(job, skills)
                          /\ MatchesFilter(job, filter)
         IN  SortJobs(SelectSeq(jobs, Keep), skills)

\* The jobs of the enumerated catalogs: a type and a tag list each.
JobShapes == [type : JobTypes, tags : TagArrays]

MkCatalog(shapes) ==
    [i \in 1..Len(shapes) |-> [id |-> i, type |-> shapes[i].type, tags |-> shapes[i].tags]]

\* The catalog the page model uses: four jobs, three of them tied on one tag.
PageCatalog ==
    MkCatalog(<< [type |-> TypePermanent, tags |-> <<"Coding">>],
                 [type |-> TypePartTime,  tags |-> <<"Coding", "Design">>],
                 [type |-> TypeOneTime,   tags |-> <<"Design">>],
                 [type |-> TypePartTime,  tags |-> <<"Writing">>] >>)

----------------------------------------------------------------------------
(* The API route: handleRoute over the auth provider and the document      *)
(* store.  A request advances from one await to the next; everything the   *)
(* handler does between two awaits is one step.                            *)

Reqs == 1..MaxReqs

\* The identities the auth provider knows (user.id, user.email).
Users == {"u1", "u2"}
Email(u) == IF u = "u1" THEN "u1@mail" ELSE IF u = "u2" THEN "u2@mail" ELSE ""

\* How supabase.auth.getUser() ends: it yields a user, it yields no user
\* (user null, with or without an authError, which the route ignores), or the
\* call itself throws because the provider cannot be reached.
AuthOutcomes == Users \cup {"none", "threw"}

\* How signUp / signInWithPassword / signOut end: without error, with an
\* `error` in the result, or by throwing.
ProviderOutcomes == {"ok", "error", "threw"}

\* route + method, as dispatched by the chain of ifs.
AuthRoutes == {"authUser", "getSkills", "postSkills", "dashUsers", "jobsMatch"}
Routes == AuthRoutes \cup
          {"root", "signup", "signin", "signout", "postStatus", "getStatus", "notFound"}

\* A JSON value of the request body, as far as the handler tells values
\* apart: absent, a (truthy) non-array, or an array of strings.
JUndefined == [kind |-> "undefined", items |-> <<>>]
JString    == [kind |-> "string", items |-> <<>>]
JArray(a)  == [kind |-> "array", items |-> a]

\* !body.skills
IsFalsy(v) == v.kind = "undefined"
\* Array.isArray(body.skills)
IsArray(v) == v.kind = "array"

SkillArrays == { <<>>, <<"Design", "Coding">>,
                 <<"Coding", "Design", "Writing", "Cooking">> }

NoBody == [parsed |-> FALSE, skills |-> JUndefined, userId |-> "none", client_name |-> ""]

\* Bodies sent to POST /user/skills; a body may carry a userId of its own.
SkillsBodies ==
    { [parsed |-> TRUE, skills |-> v, userId |-> "none", client_name |-> ""] :
          v \in {JUndefined, JString} \cup {JArray(a) : a \in SkillArrays} }
    \cup { [parsed |-> TRUE, skills |-> JArray(<<"Writing">>), userId |-> "u2",
            client_name |-> ""] }

\* Bodies sent to POST /jobs/match.
MatchBodies ==
    { [parsed |-> TRUE, skills |-> v, userId |-> "none", client_name |-> ""] :
          v \in {JUndefined, JArray(<<"Design", "Coding">>)} }

\* Bodies sent to POST /status.
StatusBodies ==
    { [parsed |-> TRUE, skills |-> JUndefined, userId |-> "none", client_name |-> c] :
          c \in {"", "probe"} }

\* Bodies sent to /auth/signup and /auth/signin ({email, password}).
AuthBodies == { [parsed |-> TRUE, skills |-> JUndefined, userId |-> "none", client_name |-> ""] }

Bodies(route) ==
    IF route = "postSkills" THEN SkillsBodies
    ELSE IF route = "jobsMatch" THEN MatchBodies
    ELSE IF route = "postStatus" THEN StatusBodies
    ELSE AuthBodies

NoDoc == [userId |-> "none", userEmail |-> "", skills |-> <<>>, updatedAt |-> -1]
NoStatusObj == [id |-> -1, client_name |-> "", timestamp |-> -1]
NoResp == [status |-> 0, error |-> "", message |-> "", user |-> "none",
           skills |-> JUndefined, users |-> <<>>, checks |-> <<>>]

MsgUnauthorized == "Unauthorized - Please log in"
MsgSkillsRequired == "Skills array is required"
MsgClientName == "client_name is required"
MsgInternal == "Internal server error"
MsgNotFound == "Route not found"
\* Messages of errors raised below the handler.
MsgDbError == "MongoNetworkError: connection closed"
MsgTypeError == "Cannot read properties of undefined (reading 'collection')"
MsgBadJson == "Unexpected end of JSON input"
MsgRejected == "Invalid login credentials"
MsgProviderDown == "fetch failed"

IdleReq == [pc |-> "idle", route |-> "", dbh |-> "undef", user |-> "none",
            body |-> NoBody, doc |-> NoDoc, statusObj |-> NoStatusObj,
            resp |-> NoResp,
            \* history, read by no handler: the internal failure raised, what
            \* getUser yielded, the use made of user_skills, and how many
            \* writes had been applied when the store served this request
            fail |-> "none", authOutcome |-> "", touched |-> "none", at |-> -1,
            \* history: this call of connectToMongo ran `new MongoClient` and
            \* started connect()
            opened |-> FALSE]

\* NextResponse.json(payload, {status}) returned by the handler.
Respond(q, status, error, failure) ==
    [q EXCEPT !.pc = "done",
              !.resp = [NoResp EXCEPT !.status = status, !.error = error],
              !.fail = failure]

RespondOk(q, resp) == [q EXCEPT !.pc = "done", !.resp = resp]

\* The top-level catch of handleRoute.
OuterCatch(q, failure) == Respond(q, 500, MsgInternal, failure)

\* The catch of an auth-required route: { error: error.message }, status 401.
InnerCatch(q, message, failure) == Respond(q, 401, message, failure)

\* The handler from `const db = await connectToMongo()` resuming up to the
\* first await of the matched route; dbh is what connectToMongo returned.
Dispatch(q, dbh) ==
    LET h == [q EXCEPT !.dbh = dbh] IN
    CASE h.route = "root" ->
            RespondOk(h, [NoResp EXCEPT !.status = 200,
                                        !.message = "WorkWise API - Where Skills Meet Jobs"])
      [] h.route \in {"signup", "signin", "postStatus"} -> [h EXCEPT !.pc = "body"]
      [] h.route = "signout" -> [h EXCEPT !.pc = "provider"]
      [] h.route \in AuthRoutes -> [h EXCEPT !.pc = "auth"]
      [] h.route = "getStatus" ->
            IF dbh = "undef" THEN OuterCatch(h, "nodb") ELSE [h EXCEPT !.pc = "store"]
      [] OTHER -> Respond(h, 404, MsgNotFound, "none")

\* Mutant: connectToMongo testing `db` where the code tests `client`.
Arrive_TestsDb(r, route) ==
    /\ reqs[r].pc = "idle"
    /\ \A p \in Reqs : p < r => reqs[p].pc # "idle"
    /\ LET q == [reqs[r] EXCEPT !.route = route] IN
       IF db = "undef"
       THEN /\ client' = "set"
            /\ reqs' = [reqs EXCEPT ![r] = [q EXCEPT !.pc = "connecting", !.opened = TRUE]]
       ELSE /\ client' = client
            /\ reqs' = [reqs EXCEPT ![r] = Dispatch(q, db)]
    /\ UNCHANGED <<db, user_skills, status_checks, now, nextId, writeLog>>

\* connectToMongo, entered: `if (!client)` constructs the client and awaits
\* connect(); otherwise the current value of `db` is returned at once.
Arrive(r, route) ==
    /\ reqs[r].pc = "idle"
    /\ \A p \in Reqs : p < r => reqs[p].pc # "idle"
    /\ LET q == [reqs[r] EXCEPT !.route = route] IN
       IF client = "unset"
       THEN /\ client' = "set"
            /\ reqs' = [reqs EXCEPT ![r] = [q EXCEPT !.pc = "connecting", !.opened = TRUE]]
       ELSE /\ client' = client
            /\ reqs' = [reqs EXCEPT ![r] = Dispatch(q, db)]
    /\ UNCHANGED <<db, user_skills, status_checks, now, nextId, writeLog>>

\* client.connect() resolves: db = client.db(...); return db.
ConnectDone(r) ==
    /\ reqs[r].pc = "connecting"
    /\ db' = "ok"
    /\ reqs' = [reqs EXCEPT ![r] = Dispatch(reqs[r], "ok")]
    /\ UNCHANGED <<client, user_skills, status_checks, now, nextId, writeLog>>

\* client.connect() rejects: the exception reaches the top-level catch;
\* `client` stays set and `db` stays undefined.
ConnectFail(r) ==
    /\ reqs[r].pc = "connecting"
    /\ reqs' = [reqs EXCEPT ![r] = OuterCatch(reqs[r], "connect")]
    /\ UNCHANGED <<client, db, user_skills, status_checks, now, nextId, writeLog>>

\* `db.collection(...)` on the handler's db: a TypeError when it is undefined.
\* Inside an auth-required route the route's own catch answers.
UseDb(q) ==
    IF q.dbh = "undef" THEN InnerCatch(q, MsgTypeError, "nodb")
    ELSE [q EXCEPT !.pc = "store"]

\* The route after getAuthenticatedUser returned `user`, up to its next await.
Authenticated(q, authUser) ==
    LET h == [q EXCEPT !.user = authUser] IN
    CASE h.route = "authUser" ->
            RespondOk(h, [NoResp EXCEPT !.status = 200, !.user = authUser])
      [] h.route \in {"getSkills", "dashUsers"} -> UseDb(h)
      [] OTHER -> [h EXCEPT !.pc = "body"]

\* Mutant: getAuthenticatedUser without `if (!user) throw`.
AfterAuth_NoCheck(q, outcome) ==
    Authenticated([q EXCEPT !.authOutcome = outcome],
                  IF outcome \in Users THEN outcome ELSE "none")

\* getAuthenticatedUser resolves, and the route runs on to its next await.
AfterAuth(q, outcome) ==
    LET h == [q EXCEPT !.authOutcome = outcome] IN
    IF outcome \notin Users
    THEN IF outcome = "threw"
         THEN InnerCatch(h, MsgProviderDown, "auth")
         ELSE \* if (!user) throw new Error('Unauthorized - Please log in')
              InnerCatch(h, MsgUnauthorized, "none")
    ELSE Authenticated(h, outcome)

AuthStep(r, outcome) ==
    /\ reqs[r].pc = "auth"
    /\ reqs' = [reqs EXCEPT ![r] = AfterAuth(reqs[r], outcome)]
    /\ UNCHANGED <<client, db, user_skills, status_checks, now, nextId, writeLog>>

\* The document POST /user/skills builds.
UserSkillsDoc(authUser, body, time) ==
    [userId |-> authUser, userEmail |-> Email(authUser), skills |-> body.skills.items,
     updatedAt |-> time]

\* The limit of the page's selection (handleSkillSelection).
MaxSelected == 3

\* Mutant: the route enforcing the page's limit of three skills.
PostSkillsBody_EnforceLimit(q, body, time) ==
    LET h == [q EXCEPT !.body = body] IN
    IF IsFalsy(body.skills) \/ ~IsArray(body.skills) \/ Len(body.skills.items) > MaxSelected
    THEN Respond(h, 400, MsgSkillsRequired, "none")
    ELSE UseDb([h EXCEPT !.doc = UserSkillsDoc(h.user, body, time)])

\* POST /user/skills from `await request.json()` resolving to the replaceOne call.
PostSkillsBody(q, body, time) ==
    LET h == [q EXCEPT !.body = body] IN
    IF IsFalsy(body.skills) \/ ~IsArray(body.skills)
    THEN Respond(h, 400, MsgSkillsRequired, "none")
    ELSE UseDb([h EXCEPT !.doc = UserSkillsDoc(h.user, body, time)])

\* POST /jobs/match: the placeholder echo.
JobsMatchBody(q, body) ==
    RespondOk([q EXCEPT !.body = body],
              [NoResp EXCEPT !.status = 200,
                             !.message = "Job matching logic placeholder",
                             !.skills = body.skills])

\* POST /status from request.json() to the insertOne call.
PostStatusBody(q, body, id, time) ==
    LET h == [q EXCEPT !.body = body] IN
    IF body.client_name = ""
    THEN Respond(h, 400, MsgClientName, "none")
    ELSE LET g == [h EXCEPT !.statusObj = [id |-> id, client_name |-> body.client_name,
                                           timestamp |-> time]]
         IN  IF g.dbh = "undef" THEN OuterCatch(g, "nodb") ELSE [g EXCEPT !.pc = "store"]

\* `await request.json()` resolves with a parsed body.
BodyStep(r, body) ==
    /\ reqs[r].pc = "body"
    /\ body \in Bodies(reqs[r].route)
    /\ LET q == reqs[r]
           built == (q.route = "postSkills" /\ IsArray(body.skills))
                    \/ (q.route = "postStatus" /\ body.client_name # "")
       IN  /\ reqs' = [reqs EXCEPT ![r] =
                  CASE q.route = "postSkills" -> PostSkillsBody(q, body, now)
                    [] q.route = "jobsMatch"  -> JobsMatchBody(q, body)
                    [] q.route = "postStatus" -> PostStatusBody(q, body, nextId, now)
                    [] OTHER -> [q EXCEPT !.body = body, !.pc = "provider"]]
           /\ now' = IF built THEN now + 1 ELSE now
           /\ nextId' = IF q.route = "postStatus" /\ built THEN nextId + 1 ELSE nextId
    /\ UNCHANGED <<client, db, user_skills, status_checks, writeLog>>

\* `await request.json()` rejects (the body is not JSON): the route's own
\* catch where there is one, the top-level catch otherwise.
BodyMalformed(r) ==
    /\ reqs[r].pc = "body"
    /\ reqs' = [reqs EXCEPT ![r] =
           IF reqs[r].route \in AuthRoutes
           THEN InnerCatch(reqs[r], MsgBadJson, "none")
           ELSE OuterCatch(reqs[r], "none")]
    /\ UNCHANGED <<client, db, user_skills, status_checks, now, nextId, writeLog>>

\* signUp / signInWithPassword / signOut resolve.
ProviderStep(r, outcome) ==
    /\ reqs[r].pc = "provider"
    /\ reqs' = [reqs EXCEPT ![r] =
           CASE outcome = "ok" ->
                   RespondOk(reqs[r], [NoResp EXCEPT !.status = 200,
                       !.message = IF reqs[r].route = "signout"
                                   THEN "Signed out successfully" ELSE ""])
             [] outcome = "error" -> Respond(reqs[r], 400, MsgRejected, "none")
             [] OTHER -> OuterCatch(reqs[r], "auth")]
    /\ UNCHANGED <<client, db, user_skills, status_checks, now, nextId, writeLog>>

----------------------------------------------------------------------------
(* The document store: single operations on a collection *)

Matching(coll, uid) == {i \in 1..Len(coll) : coll[i].userId = uid}
First(S) == CHOOSE i \in S : \A j \in S : i <= j

\* Mutant: findOne({}) - the filter dropped.
FindOne_NoFilter(coll, uid) == IF coll = <<>> THEN <<>> ELSE <<coll[1]>>

\* collection.findOne({ userId }): the first matching document, or null.
FindOne(coll, uid) ==
    IF Matching(coll, uid) = {} THEN <<>> ELSE <<coll[First(Matching(coll, uid))]>>

\* Mutant: an insert where the upsert should replace.
ReplaceOneUpsert_AlwaysInsert(coll, uid, doc, id) ==
    Append(coll, [_id |-> id, userId |-> doc.userId, userEmail |-> doc.userEmail,
                  skills |-> doc.skills, updatedAt |-> doc.updatedAt])

\* Mutant: an existing document is kept (insert only when none matches).
ReplaceOneUpsert_FirstWins(coll, uid, doc, id) ==
    IF Matching(coll, uid) = {}
    THEN ReplaceOneUpsert_AlwaysInsert(coll, uid, doc, id)
    ELSE coll

\* collection.replaceOne({ userId }, doc, { upsert: true }): one atomic
\* single-document write.  The first matching document is replaced whole
\* (its _id kept); when none matches, doc is inserted under a fresh _id.
ReplaceOneUpsert(coll, uid, doc, id) ==
    LET stored(key) == [_id |-> key, userId |-> doc.userId, userEmail |-> doc.userEmail,
                        skills |-> doc.skills, updatedAt |-> doc.updatedAt]
    IN  IF Matching(coll, uid) = {}
        THEN Append(coll, stored(id))
        ELSE LET k == First(Matching(coll, uid))
             IN  [coll EXCEPT ![k] = stored(coll[k]._id)]

\* users.map(({ _id, ...rest }) => rest)
StripId(d) == [userId |-> d.userId, userEmail |-> d.userEmail, skills |-> d.skills,
               updatedAt |-> d.updatedAt]
CleanedUsers(coll) == [i \in 1..Len(coll) |-> StripId(coll[i])]

\* find({}).limit(1000).toArray()
StatusLimit == 1000
Limit(coll, n) == SubSeq(coll, 1, IF Len(coll) < n THEN Len(coll) ELSE n)

\* userSkills?.skills || []
SkillsOrEmpty(found) == IF found = <<>> THEN <<>> ELSE found[1].skills

\* Mutant: the key taken from the request body when it names one.
UpsertFilter_FromBody(q) == IF q.body.userId # "none" THEN q.body.userId ELSE q.user

\* The filter of POST /user/skills' replaceOne: { userId: user.id }.
UpsertFilter(q) == q.user

\* The filter of GET /user/skills' findOne: { userId: user.id }.
FindFilter(q) == q.user

\* The pending store operation is applied and the handler answers.
StoreStep(r) ==
    /\ reqs[r].pc = "store"
    /\ LET q == reqs[r] IN
       CASE q.route = "getSkills" ->
              /\ reqs' = [reqs EXCEPT ![r] =
                     RespondOk([q EXCEPT !.touched = "read", !.at = Len(writeLog)],
                         [NoResp EXCEPT !.status = 200,
                             !.skills = JArray(SkillsOrEmpty(
                                            FindOne(user_skills, FindFilter(q))))])]
              /\ UNCHANGED <<user_skills, status_checks, nextId, writeLog>>
         [] q.route = "postSkills" ->
              /\ user_skills' = ReplaceOneUpsert(user_skills, UpsertFilter(q), q.doc, nextId)
              /\ nextId' = nextId + 1
              /\ writeLog' = Append(writeLog, r)
              /\ reqs' = [reqs EXCEPT ![r] =
                     RespondOk([q EXCEPT !.touched = "write", !.at = Len(writeLog)],
                         [NoResp EXCEPT !.status = 200,
                             !.message = "Skills updated successfully",
                             !.skills = q.body.skills])]
              /\ UNCHANGED status_checks
         [] q.route = "dashUsers" ->
              /\ reqs' = [reqs EXCEPT ![r] =
                     RespondOk([q EXCEPT !.touched = "read", !.at = Len(writeLog)],
                         [NoResp EXCEPT !.status = 200,
                             !.users = CleanedUsers(user_skills)])]
              /\ UNCHANGED <<user_skills, status_checks, nextId, writeLog>>
         [] q.route = "postStatus" ->
              /\ status_checks' = Append(status_checks, q.statusObj)
              /\ reqs' = [reqs EXCEPT ![r] =
                     RespondOk(q, [NoResp EXCEPT !.status = 200,
                                                 !.checks = <<q.statusObj>>])]
              /\ UNCHANGED <<user_skills, nextId, writeLog>>
         [] OTHER -> \* getStatus
              /\ reqs' = [reqs EXCEPT ![r] =
                     RespondOk(q, [NoResp EXCEPT !.status = 200,
                                       !.checks = Limit(status_checks, StatusLimit)])]
              /\ UNCHANGED <<user_skills, status_checks, nextId, writeLog>>
    /\ UNCHANGED <<client, db, now>>

\* The pending store operation rejects: the route's own catch where there is
\* one, the top-level catch otherwise.
StoreFail(r) ==
    /\ reqs[r].pc = "store"
    /\ reqs' = [reqs EXCEPT ![r] =
           IF reqs[r].route \in AuthRoutes
           THEN InnerCatch(reqs[r], MsgDbError, "db")
           ELSE OuterCatch(reqs[r], "db")]
    /\ UNCHANGED <<client, db, user_skills, status_checks, now, nextId, writeLog>>

----------------------------------------------------------------------------
(* The page component.  A step is one callback run to its next await; the  *)
(* state updates it makes, the render and the effect on [userSkills,       *)
(* jobFilter] that follows are part of the step.                           *)

Loads == 1..MaxLoads
Saves == 1..MaxSaves

\* The session users the page sees.
PageUsers == {"u1"}

\* skillsJobsData.skills[*].name, in catalog order.
CatalogSkills == <<"Coding", "Design", "Writing", "Cooking">>

\* What GET /api/user/skills can carry in data.skills.
ResponseSkills == { <<>>, <<"Design", "Coding">> }

\* What GET /api/dashboard/users can carry in data.users.
ResponseUsers == { << [userId |-> "u1", skills |-> <<"Coding">>] >> }

NoLoad == [phase |-> "idle", owner |-> "none"]
NoSave == [phase |-> "idle", body |-> <<>>]

\* useEffect(..., [userSkills, jobFilter]): `if (userSkills.length > 0) findMatchedJobs()`
\* run with the values of the render it belongs to.
MatchEffect(skills, filter, matched) ==
    IF Len(skills) > 0 THEN FindMatchedJobs(PageCatalog, skills, filter) ELSE matched

\* Mutant: handleSkillSelection without the `selectedSkills.length < 3` test.
ToggleSkill_NoLimit(selected, skillName) ==
    IF Includes(selected, skillName)
    THEN LET Other(x) == x # skillName IN SelectSeq(selected, Other)
    ELSE Append(selected, skillName)

\* handleSkillSelection: the value given to setSelectedSkills (the selection
\* itself where no branch is taken).
ToggleSkill(selected, skillName) ==
    IF Includes(selected, skillName)
    THEN LET Other(x) == x # skillName IN SelectSeq(selected, Other)
    ELSE IF Len(selected) < MaxSelected
         THEN Append(selected, skillName)
         ELSE selected

\* The "Select Your Skills" card is rendered: not loading, a user, no userSkills.
PanelShown == ~loading /\ user # "none" /\ Len(userSkills) = 0
\* The tabs with the job-type <Select> are rendered.
TabsShown == ~loading /\ user # "none" /\ Len(userSkills) > 0

\* loadUserData is called: its first fetch is in flight.
StartLoad(owner) ==
    /\ \E l \in Loads :
          /\ loads[l].phase = "idle"
          /\ \A k \in Loads : k < l => loads[k].phase # "idle"
          /\ loads' = [loads EXCEPT ![l] = [phase |-> "skills", owner |-> owner]]

\* checkAuth: getSession() resolves.
CheckAuthSession(sessionUser) ==
    /\ checkAuth = "session"
    /\ IF sessionUser # "none"
       THEN /\ user' = sessionUser
            /\ StartLoad("checkAuth")
            /\ checkAuth' = "loading"
            /\ UNCHANGED loading
       ELSE /\ loading' = FALSE
            /\ checkAuth' = "done"
            /\ UNCHANGED <<user, loads>>
    /\ UNCHANGED <<authEvent, userSkills, selectedSkills, matchedJobs, jobFilter,
                   allUsers, activeTab, saves>>

\* The onAuthStateChange callback, with a session.
OnSignedIn(sessionUser) ==
    /\ sessionUser # "none"
    /\ user' = sessionUser
    /\ StartLoad("event")
    /\ authEvent' = "SIGNED_IN"
    /\ UNCHANGED <<loading, checkAuth, userSkills, selectedSkills, matchedJobs,
                   jobFilter, allUsers, activeTab, saves>>

\* The onAuthStateChange callback, without a session.
OnSignedOut ==
    /\ user' = "none"
    /\ userSkills' = <<>>
    /\ selectedSkills' = <<>>
    /\ matchedJobs' = MatchEffect(<<>>, jobFilter, matchedJobs)
    /\ authEvent' = "SIGNED_OUT"
    /\ UNCHANGED <<loading, checkAuth, jobFilter, allUsers, activeTab, loads, saves>>

\* loadUserData: the fetch of /api/user/skills ends (ok with data, or not ok /
\* thrown), and the fetch of /api/dashboard/users is sent.
LoadSkillsResponse(l, ok, skills) ==
    /\ loads[l].phase = "skills"
    /\ loads' = [loads EXCEPT ![l].phase = "users"]
    /\ IF ok
       THEN /\ userSkills' = skills
            /\ matchedJobs' = MatchEffect(skills, jobFilter, matchedJobs)
       ELSE UNCHANGED <<userSkills, matchedJobs>>
    /\ UNCHANGED <<authEvent, loading, checkAuth, user, selectedSkills, jobFilter, allUsers,
                   activeTab, saves>>

\* loadUserData: the fetch of /api/dashboard/users ends; checkAuth, when it
\* awaited this load, goes on to setLoading(false).
LoadUsersResponse(l, ok, users) ==
    /\ loads[l].phase = "users"
    /\ loads' = [loads EXCEPT ![l] = [phase |-> "done", owner |-> "none"]]
    /\ allUsers' = IF ok THEN users ELSE allUsers
    /\ IF loads[l].owner = "checkAuth"
       THEN loading' = FALSE /\ checkAuth' = "done"
       ELSE UNCHANGED <<loading, checkAuth>>
    /\ UNCHANGED <<authEvent, user, userSkills, selectedSkills, matchedJobs,
                   jobFilter, activeTab, saves>>

\* handleSkillSelection(skillName), for every call of it while the card is
\* rendered.  (The button's `disabled` repeats the handler's own test; a call
\* it would have prevented leaves the selection as it is.)
HandleSkillSelection(skillName) ==
    /\ PanelShown
    /\ selectedSkills' = ToggleSkill(selectedSkills, skillName)
    /\ UNCHANGED <<authEvent, loading, checkAuth, user, userSkills, matchedJobs, jobFilter,
                   allUsers, activeTab, loads, saves>>

\* saveUserSkills, called: the POST carrying the current selection is sent.
SaveUserSkills ==
    /\ PanelShown
    /\ Len(selectedSkills) # 0          \* disabled={selectedSkills.length === 0}
    /\ \E k \in Saves :
          /\ saves[k].phase = "idle"
          /\ \A j \in Saves : j < k => saves[j].phase # "idle"
          /\ saves' = [saves EXCEPT ![k] = [phase |-> "pending", body |-> selectedSkills]]
    /\ UNCHANGED <<authEvent, loading, checkAuth, user, userSkills, selectedSkills, matchedJobs,
                   jobFilter, allUsers, activeTab, loads>>

\* saveUserSkills: the POST ends; on response.ok the selection that was sent
\* becomes userSkills and the jobs tab is shown.
SaveResponse(k, ok) ==
    /\ saves[k].phase = "pending"
    /\ saves' = [saves EXCEPT ![k] = [phase |-> "done", body |-> <<>>]]
    /\ IF ok
       THEN /\ userSkills' = saves[k].body
            /\ activeTab' = "jobs"
            /\ matchedJobs' = MatchEffect(saves[k].body, jobFilter, matchedJobs)
       ELSE UNCHANGED <<userSkills, activeTab, matchedJobs>>
    /\ UNCHANGED <<authEvent, loading, checkAuth, user, selectedSkills, jobFilter, allUsers,
                   loads>>

\* The job-type <Select>: onValueChange={setJobFilter}.
SetJobFilter(filter) ==
    /\ TabsShown
    /\ filter # jobFilter
    /\ jobFilter' = filter
    /\ matchedJobs' = MatchEffect(userSkills, filter, matchedJobs)
    /\ UNCHANGED <<authEvent, loading, checkAuth, user, userSkills, selectedSkills, allUsers,
                   activeTab, loads, saves>>

\* <Tabs onValueChange={setActiveTab}>
SetActiveTab(tab) ==
    /\ TabsShown
    /\ tab # activeTab
    /\ activeTab' = tab
    /\ UNCHANGED <<authEvent, loading, checkAuth, user, userSkills, selectedSkills, matchedJobs,
                   jobFilter, allUsers, loads, saves>>

PageIdle ==
    /\ loading = TRUE
    /\ checkAuth = "session"
    /\ user = "none"
    /\ userSkills = <<>>
    /\ selectedSkills = <<>>
    /\ matchedJobs = <<>>
    /\ jobFilter = FilterAll
    /\ allUsers = <<>>
    /\ activeTab = "jobs"
    /\ loads = [l \in Loads |-> NoLoad]
    /\ saves = [k \in Saves |-> NoSave]
    /\ authEvent = "none"

----------------------------------------------------------------------------
(* The dashboard aggregator: getSkillFrequencyData                         *)

\* An object literal as the list of its properties in Object.keys order.
\* Property names here are skill names, none of them an integer index, so
\* the order is the order of first assignment.
EmptyObject == <<>>

ObjectKeys(obj) == [i \in 1..Len(obj) |-> obj[i].key]
ObjectValues(obj) == [i \in 1..Len(obj) |-> obj[i].value]

\* obj[key] = value: an existing property keeps its place, a new one is last.
SetProperty(obj, key, value) ==
    IF \E i \in 1..Len(obj) : obj[i].key = key
    THEN [i \in 1..Len(obj) |->
             IF obj[i].key = key THEN [key |-> key, value |-> value] ELSE obj[i]]
    ELSE Append(obj, [key |-> key, value |-> value])

\* Mutant: counting every occurrence of the name instead of every record.
SkillCount_Occurrences(users, name) ==
    LET Same(x) == x = name
        Hits(rec) == IF IsFalsy(rec.skills) THEN 0
                     ELSE Len(SelectSeq(rec.skills.items, Same))
        Sum[i \in 0..Len(users)] == IF i = 0 THEN 0 ELSE Sum[i - 1] + Hits(users[i])
    IN  Sum[Len(users)]

\* allUsers.filter(user => user.skills && user.skills.includes(skill.name)).length
SkillCount(users, name) ==
    LET Counts(rec) == ~IsFalsy(rec.skills) /\ Includes(rec.skills.items, name)
    IN  Len(SelectSeq(users, Counts))

\* skillsJobsData.skills.forEach(skill => { skillCounts[skill.name] = ... })
RECURSIVE SkillCounts(_, _)
SkillCounts(skills, users) ==
    IF skills = <<>> THEN EmptyObject
    ELSE LET n == Len(skills)
         IN  SetProperty(SkillCounts(SubSeq(skills, 1, n - 1), users),
                         skills[n], SkillCount(users, skills[n]))

NoChart == [labels |-> <<>>, data |-> <<>>]

\* The labels and the data of the chart getSkillFrequencyData returns.
GetSkillFrequencyData(skills, users) ==
    LET skillCounts == SkillCounts(skills, users)
    IN  [labels |-> ObjectKeys(skillCounts), data |-> ObjectValues(skillCounts)]

----------------------------------------------------------------------------
(* Initial states and specifications *)

ServerIdle ==
    /\ client = "unset"
    /\ db = "undef"
    /\ user_skills = <<>>
    /\ status_checks = <<>>
    /\ now = 0
    /\ nextId = 0
    /\ reqs = [r \in Reqs |-> IdleReq]
    /\ writeLog = <<>>

MatchIdle ==
    /\ catalog = <<>>
    /\ mSkills = <<>>
    /\ mFilter = FilterAll
    /\ mResult = <<>>
    /\ mPc = "idle"

DashIdle ==
    /\ dSkills = <<>>
    /\ dUsers = <<>>
    /\ dResult = NoChart
    /\ dPc = "idle"

Init == ServerIdle /\ MatchIdle /\ DashIdle /\ PageIdle

Next ==
    \/ \E r \in Reqs, route \in Routes : Arrive(r, route) /\ UNCHANGED <<mvars, dvars, pvars>>
    \/ \E r \in Reqs : ConnectDone(r) /\ UNCHANGED <<mvars, dvars, pvars>>
    \/ \E r \in Reqs : ConnectFail(r) /\ UNCHANGED <<mvars, dvars, pvars>>
    \/ \E r \in Reqs, o \in AuthOutcomes : AuthStep(r, o) /\ UNCHANGED <<mvars, dvars, pvars>>
    \/ \E r \in Reqs, b \in SkillsBodies \cup MatchBodies \cup StatusBodies \cup AuthBodies :
           BodyStep(r, b) /\ UNCHANGED <<mvars, dvars, pvars>>
    \/ \E r \in Reqs : BodyMalformed(r) /\ UNCHANGED <<mvars, dvars, pvars>>
    \/ \E r \in Reqs, o \in ProviderOutcomes : ProviderStep(r, o) /\ UNCHANGED <<mvars, dvars, pvars>>
    \/ \E r \in Reqs : StoreStep(r) /\ UNCHANGED <<mvars, dvars, pvars>>
    \/ \E r \in Reqs : StoreFail(r) /\ UNCHANGED <<mvars, dvars, pvars>>

Spec == Init /\ [][Next]_vars

----------------------------------------------------------------------------
(* SpecMatch: the matcher applied to every bounded input *)

Catalogs ==
    {MkCatalog(s) : s \in UNION {[1..n -> JobShapes] : n \in 0..MaxJobs}}
    \cup {PageCatalog}

InitMatch ==
    /\ catalog \in Catalogs
    /\ mSkills \in NameArrays
    /\ mFilter \in JobFilters
    /\ mResult = <<>>
    /\ mPc = "input"
    /\ ServerIdle
    /\ DashIdle
    /\ PageIdle

CallFindMatchedJobs ==
    /\ mPc = "input"
    /\ mResult' = FindMatchedJobs(catalog, mSkills, mFilter)
    /\ mPc' = "done"
    /\ UNCHANGED <<catalog, mSkills, mFilter>>

NextMatch == CallFindMatchedJobs /\ UNCHANGED <<svars, dvars, pvars>>

----------------------------------------------------------------------------
(* SpecPage: the page from its mount *)

InitPage == PageIdle /\ ServerIdle /\ MatchIdle /\ DashIdle

NextPage ==
    \/ \E u \in PageUsers \cup {"none"} : CheckAuthSession(u) /\ UNCHANGED <<mvars, dvars, svars>>
    \/ \E u \in PageUsers : OnSignedIn(u) /\ UNCHANGED <<mvars, dvars, svars>>
    \/ OnSignedOut /\ UNCHANGED <<mvars, dvars, svars>>
    \/ \E l \in Loads, ok \in BOOLEAN, sk \in ResponseSkills :
           LoadSkillsResponse(l, ok, sk) /\ UNCHANGED <<mvars, dvars, svars>>
    \/ \E l \in Loads, ok \in BOOLEAN, us \in ResponseUsers :
           LoadUsersResponse(l, ok, us) /\ UNCHANGED <<mvars, dvars, svars>>
    \/ \E n \in Range(CatalogSkills) : HandleSkillSelection(n) /\ UNCHANGED <<mvars, dvars, svars>>
    \/ SaveUserSkills /\ UNCHANGED <<mvars, dvars, svars>>
    \/ \E k \in Saves, ok \in BOOLEAN : SaveResponse(k, ok) /\ UNCHANGED <<mvars, dvars, svars>>
    \/ \E f \in JobFilters : SetJobFilter(f) /\ UNCHANGED <<mvars, dvars, svars>>
    \/ \E t \in {"jobs", "dashboard"} : SetActiveTab(t) /\ UNCHANGED <<mvars, dvars, svars>>

SpecPage == InitPage /\ [][NextPage]_vars

SpecMatch == InitMatch /\ [][NextMatch]_vars

----------------------------------------------------------------------------
(* SpecDash: getSkillFrequencyData applied to every bounded input *)

\* Skill catalogs: every list of different names out of the page's catalog.
SkillCatalogs ==
    {c \in UNION {[1..n -> Range(CatalogSkills)] : n \in 0..Len(CatalogSkills)} :
        \A i, j \in 1..Len(c) : c[i] = c[j] => i = j}

\* Records of GET /dashboard/users: the skills array a save stored (whatever
\* the array, names outside the catalog and repeated names included), or a
\* record with no skills field.
UserRecords ==
    {[skills |-> JUndefined]} \cup
    {[skills |-> JArray(a)] :
        a \in {<<>>, <<"Coding">>, <<"Coding", "Design">>,
               <<"Design", "Coding", "Design">>, <<"Gardening">>}}

UserLists == UNION {[1..n -> UserRecords] : n \in 0..MaxUsers}

InitDash ==
    /\ dSkills \in SkillCatalogs
    /\ dUsers \in UserLists
    /\ dResult = NoChart
    /\ dPc = "input"
    /\ ServerIdle
    /\ MatchIdle
    /\ PageIdle

CallGetSkillFrequencyData ==
    /\ dPc = "input"
    /\ dResult' = GetSkillFrequencyData(dSkills, dUsers)
    /\ dPc' = "done"
    /\ UNCHANGED <<dSkills, dUsers>>

NextDash == CallGetSkillFrequencyData /\ UNCHANGED <<mvars, svars, pvars>>

SpecDash == InitDash /\ [][NextDash]_vars

----------------------------------------------------------------------------
(* Claims about the matcher, stated without the matcher's own helpers *)

\* A type lowercased and with every hyphen removed, as the contract words it.
RECURSIVE StripHyphens(_)
StripHyphens(s) ==
    IF s = <<>> THEN <<>>
    ELSE (IF Head(s) = "-" THEN <<>> ELSE <<Head(s)>>) \o StripHyphens(Tail(s))

SharedTags(job, skills) == Range(job.tags) \cap Range(skills)

ShouldMatch(job, skills, filter) ==
    /\ SharedTags(job, skills) # {}
    /\ (filter = FilterAll \/ StripHyphens(ToLowerCase(Chars(job.type))) = Chars(filter))

\* C1: the matcher returns exactly the jobs of the catalog that share at
\* least one tag with the user skills and pass the type filter (filter 'all',
\* or the type lowercased and hyphen-stripped equal to the filter), each once;
\* with empty user skills the result is empty for every filter.
C1_MatchExactlyFiltered ==
    mPc = "done" =>
        /\ \A i \in 1..Len(catalog) :
               (catalog[i] \in Range(mResult)) <=> ShouldMatch(catalog[i], mSkills, mFilter)
        /\ Range(mResult) \subseteq Range(catalog)
        /\ \A i, j \in 1..Len(mResult) : mResult[i] = mResult[j] => i = j
        /\ (mSkills = <<>> => mResult = <<>>)

\* C1 witness: under the parttime filter a Part-Time job is returned while a
\* job sharing a tag but of another type is left out.
C1_Witness ==
    /\ mPc = "done"
    /\ mFilter = FilterPartTime
    /\ \E i \in 1..Len(mResult) : mResult[i].type = TypePartTime
    /\ \E i \in 1..Len(catalog) :
           /\ SharedTags(catalog[i], mSkills) # {}
           /\ catalog[i].type = TypeOneTime
           /\ catalog[i] \notin Range(mResult)

\* C2: the result is ordered by descending count of tags that are user
\* skills, and jobs with equal counts keep their catalog order.
C2_SortedDescendingStable ==
    mPc = "done" =>
        \A i, j \in 1..Len(mResult) :
            i < j =>
                LET ci == Cardinality(SharedTags(mResult[i], mSkills))
                    cj == Cardinality(SharedTags(mResult[j], mSkills))
                IN  /\ ci >= cj
                    /\ (ci = cj => mResult[i].id < mResult[j].id)

\* C2 witness: job A (tags [Coding]) listed before job B (tags [Coding,
\* Design]) and a third job tied with A; skills {Coding, Design} give
\* [B, A, C].
C2_Witness ==
    /\ mPc = "done"
    /\ mSkills = <<"Coding", "Design">>
    /\ mFilter = FilterAll
    /\ Len(catalog) = 3
    /\ catalog[1].tags = <<"Coding">> /\ catalog[1].type = TypePermanent
    /\ catalog[2].tags = <<"Coding", "Design">> /\ catalog[2].type = TypePartTime
    /\ catalog[3].tags = <<"Design">>
    /\ mResult = <<catalog[2], catalog[1], catalog[3]>>

----------------------------------------------------------------------------
(* Claims about the API route *)

IsDone(r) == reqs[r].pc = "done"

\* The positions among the first n applied writes that user u's requests made.
WritesBy(u, n) == {i \in 1..n : reqs[writeLog[i]].user = u}
Last(S) == CHOOSE i \in S : \A j \in S : j <= i
\* The request whose write is the last of u's among the first n.
LastWriter(u, n) == writeLog[Last(WritesBy(u, n))]

RecordsOf(u) == Matching(user_skills, u)

\* C3 (as claimed): a failure of the document store or of the auth provider
\* raised while a request is handled is answered 500 with the generic body
\* {error: "Internal server error"}, on every route.
C3_InternalFailureIsGeneric500 ==
    \A r \in Reqs :
        (IsDone(r) /\ reqs[r].fail \in {"db", "auth", "connect"}) =>
            /\ reqs[r].resp.status = 500
            /\ reqs[r].resp.error = MsgInternal

\* C4: on an auth-required route a request for which the auth provider
\* yields no user is answered 401 and neither reads nor writes user_skills;
\* every read of and write to user_skills, and every record in it, comes from
\* a request whose auth provider call yielded a user.
C4_UnauthenticatedIs401AndTouchesNothing ==
    /\ \A r \in Reqs :
          (reqs[r].route \in AuthRoutes /\ reqs[r].authOutcome = "none") =>
              /\ IsDone(r)
              /\ reqs[r].resp.status = 401
              /\ reqs[r].touched = "none"
              /\ \A i \in 1..Len(writeLog) : writeLog[i] # r
    /\ \A i \in 1..Len(writeLog) :
          /\ reqs[writeLog[i]].authOutcome \in Users
          /\ reqs[writeLog[i]].user = reqs[writeLog[i]].authOutcome
    /\ \A k \in 1..Len(user_skills) :
          \E i \in 1..Len(writeLog) :
              reqs[writeLog[i]].authOutcome = user_skills[k].userId
    /\ \A r \in Reqs : reqs[r].touched # "none" => reqs[r].authOutcome \in Users

\* C4 witness: one request was turned away with 401 on POST /user/skills
\* while another, authenticated, wrote its record.
C4_Witness ==
    \E r, w \in Reqs :
        /\ reqs[r].route = "postSkills" /\ reqs[r].authOutcome = "none"
        /\ reqs[r].resp.status = 401
        /\ reqs[w].route = "postSkills" /\ reqs[w].touched = "write"
        /\ Len(user_skills) = 1

\* C5: user_skills holds at most one record per userId, and each record is
\* entirely the document one save built (userId, userEmail, skills,
\* updatedAt of that one request).
C5_OneWholeRecordPerUser ==
    /\ \A i, j \in 1..Len(user_skills) :
          user_skills[i].userId = user_skills[j].userId => i = j
    /\ \A k \in 1..Len(user_skills) :
          \E i \in 1..Len(writeLog) :
              LET w == reqs[writeLog[i]] IN
              /\ StripId(user_skills[k]) = w.doc
              /\ w.doc.userId = w.user
              /\ w.doc.userEmail = Email(w.user)
              /\ w.doc.skills = w.body.skills.items

\* C5 witness: the same user saved twice, with different skills, and one record
\* is held.
C5_Witness ==
    /\ Len(writeLog) = 2
    /\ reqs[writeLog[1]].user = reqs[writeLog[2]].user
    /\ reqs[writeLog[1]].body.skills # reqs[writeLog[2]].body.skills
    /\ Len(user_skills) = 1

\* C6: a successful GET /user/skills by u returns the skills array of u's
\* latest save applied before the read, same elements in the same order, and
\* [] when u has no record; a successful POST echoes the array it was sent.
C6_GetReturnsLastSaved ==
    /\ \A g \in Reqs :
          (reqs[g].route = "getSkills" /\ IsDone(g) /\ reqs[g].resp.status = 200) =>
              LET u == reqs[g].user
                  n == reqs[g].at
              IN  reqs[g].resp.skills =
                      JArray(IF WritesBy(u, n) = {} THEN <<>>
                             ELSE reqs[LastWriter(u, n)].body.skills.items)
    /\ \A p \in Reqs :
          (reqs[p].route = "postSkills" /\ IsDone(p) /\ reqs[p].resp.status = 200) =>
              reqs[p].resp.skills = reqs[p].body.skills

\* C6 witness: a user saved [Design, Coding] and the same user's later GET
\* returned [Design, Coding].
C6_Witness ==
    \E g, p \in Reqs :
        /\ reqs[p].route = "postSkills" /\ reqs[p].touched = "write"
        /\ reqs[g].route = "getSkills" /\ reqs[g].resp.status = 200
        /\ reqs[g].user = reqs[p].user
        /\ reqs[g].at = 1
        /\ reqs[g].resp.skills = JArray(<<"Design", "Coding">>)

\* C7: the step that applies a POST /user/skills of authenticated user u
\* creates or replaces the record keyed by u's id, the id the auth provider
\* gave; every other user's records and status_checks stay as they were, and
\* no other step changes user_skills.
C7_PostWritesOnlyOwnRecord ==
    [][ /\ \A r \in Reqs :
             (reqs[r].pc = "store" /\ reqs[r].route = "postSkills" /\ reqs'[r].pc = "done"
              /\ reqs'[r].touched = "write") =>
                 /\ status_checks' = status_checks
                 /\ \A u \in Users \cup {"none"} :
                        u # reqs[r].authOutcome =>
                            /\ Matching(user_skills', u) = Matching(user_skills, u)
                            /\ \A k \in Matching(user_skills, u) :
                                   user_skills'[k] = user_skills[k]
                 /\ FindOne(user_skills', reqs[r].authOutcome) # <<>>
                 /\ StripId(FindOne(user_skills', reqs[r].authOutcome)[1]) = reqs[r].doc
        /\ user_skills' # user_skills =>
               \E r \in Reqs : reqs[r].route = "postSkills" /\ reqs'[r].touched = "write"
                               /\ reqs[r].touched = "none"
      ]_vars

\* C7 witness: u1's save, whose body named userId u2, was applied next to
\* u2's record: two records, u2's first.
C7_Witness ==
    \E r \in Reqs :
        /\ reqs[r].route = "postSkills" /\ reqs[r].touched = "write"
        /\ reqs[r].user = "u1" /\ reqs[r].body.userId = "u2"
        /\ Len(user_skills) = 2
        /\ user_skills[1].userId = "u2"
        /\ user_skills[2].userId = "u1"

\* C8: when all POST /user/skills requests of a user are complete, the
\* user's stored skills are those of the request whose write was applied
\* last, whole, and every request whose write was applied answered success.
C8_LastWriteWins ==
    \A u \in Users :
        LET n == Len(writeLog)
            posts == {r \in Reqs : reqs[r].route = "postSkills" /\ reqs[r].user = u}
        IN  ((\A r \in posts : IsDone(r)) /\ WritesBy(u, n) # {}) =>
                /\ Cardinality(RecordsOf(u)) = 1
                /\ user_skills[First(RecordsOf(u))].skills =
                       reqs[LastWriter(u, n)].body.skills.items
                /\ \A i \in WritesBy(u, n) :
                       /\ reqs[writeLog[i]].resp.status = 200
                       /\ reqs[writeLog[i]].resp.error = ""

\* C8 witness: two saves of one user overlapped; the request that built its
\* document first was applied last, and its skills are the stored ones.
C8_Witness ==
    /\ Len(writeLog) = 2
    /\ reqs[writeLog[1]].user = reqs[writeLog[2]].user
    /\ reqs[writeLog[2]].doc.updatedAt < reqs[writeLog[1]].doc.updatedAt
    /\ reqs[writeLog[1]].body.skills # reqs[writeLog[2]].body.skills
    /\ Len(user_skills) = 1
    /\ user_skills[1].skills = reqs[writeLog[2]].body.skills.items

\* C9: for an authenticated caller of POST /user/skills, a body whose
\* skills field is missing or not an array is answered 400 "Skills array is
\* required" and writes nothing; a body whose skills field is an array, of
\* any length, is never answered 400, and once its write is applied the
\* answer is success and the caller's record holds that array.
C9_OnlyArrayShapeIsValidated ==
    \A r \in Reqs :
        (reqs[r].route = "postSkills" /\ reqs[r].user \in Users /\ reqs[r].body.parsed) =>
            /\ ~IsArray(reqs[r].body.skills) =>
                   /\ IsDone(r)
                   /\ reqs[r].resp.status = 400
                   /\ reqs[r].resp.error = MsgSkillsRequired
                   /\ reqs[r].touched = "none"
                   /\ \A i \in 1..Len(writeLog) : writeLog[i] # r
            /\ IsArray(reqs[r].body.skills) =>
                   /\ reqs[r].resp.status # 400
                   /\ reqs[r].pc \in {"store", "done"}
                   /\ reqs[r].touched = "write" =>
                          /\ reqs[r].resp.status = 200
                          /\ reqs[r].resp.message = "Skills updated successfully"
                          /\ (LastWriter(reqs[r].user, Len(writeLog)) = r =>
                                 FindOne(user_skills, reqs[r].user)[1].skills =
                                     reqs[r].body.skills.items)

\* C9 witness: a four-skill array was accepted and overwrote the caller's
\* earlier record.
C9_Witness ==
    /\ Len(writeLog) = 2
    /\ reqs[writeLog[1]].user = reqs[writeLog[2]].user
    /\ Len(reqs[writeLog[2]].body.skills.items) = 4
    /\ reqs[writeLog[2]].resp.status = 200
    /\ Len(user_skills) = 1
    /\ Len(user_skills[1].skills) = 4

----------------------------------------------------------------------------
(* Claims about the page *)

NoDuplicates(seq) == \A i, j \in 1..Len(seq) : seq[i] = seq[j] => i = j

\* The selection, and every skills array a saveUserSkills call has sent and
\* still holds, has at most three names, all different.
SelectionWithinLimit ==
    /\ Len(selectedSkills) <= 3
    /\ NoDuplicates(selectedSkills)
    /\ \A k \in Saves : saves[k].phase = "pending" =>
           Len(saves[k].body) <= 3 /\ NoDuplicates(saves[k].body)

\* What the contract says of one toggle of skill n, from selection `before`
\* to selection `after`.
ToggledAsClaimed(before, after, n) ==
    IF n \in Range(before)
    THEN Range(after) = Range(before) \ {n} /\ Len(after) = Len(before) - 1
    ELSE IF Len(before) < 3
         THEN after = before \o <<n>>
         ELSE after = before

\* C10: from the empty selection, through every toggle, save, sign-in and
\* sign-out, selectedSkills holds at most 3 names and no duplicate, and so
\* does every array saveUserSkills submits; a toggle of a selected skill
\* removes it, a toggle of an unselected skill appends it when fewer than 3
\* are selected and changes nothing otherwise.
C10_SelectionAtMostThree ==
    /\ SelectionWithinLimit
    /\ [][ /\ SelectionWithinLimit'
           /\ \A n \in Range(CatalogSkills) :
                  HandleSkillSelection(n) =>
                      ToggledAsClaimed(selectedSkills, selectedSkills', n)
         ]_vars

\* C10 witness: three skills are selected, chosen out of catalog order, and a
\* save carrying three skills is in flight.
C10_Witness ==
    /\ Len(selectedSkills) = 3
    /\ selectedSkills[1] = "Cooking"
    /\ \E k \in Saves : saves[k].phase = "pending" /\ Len(saves[k].body) = 3

----------------------------------------------------------------------------
(* Claims about the dashboard aggregator *)

\* The user records whose skills include the name, as the contract counts them.
RecordsIncluding(users, name) ==
    {j \in 1..Len(users) :
        users[j].skills.kind = "array" /\ name \in Range(users[j].skills.items)}

\* C11: skillFrequency has exactly one entry per skill of the catalog, in
\* catalog order, and the entry's value is the number of user records whose
\* skills include that name: 0 when none does, and a record without a skills
\* field counts for no skill.
C11_SkillFrequencyCountsRecords ==
    dPc = "done" =>
        /\ dResult.labels = dSkills
        /\ Len(dResult.data) = Len(dSkills)
        /\ \A i \in 1..Len(dSkills) :
               dResult.data[i] = Cardinality(RecordsIncluding(dUsers, dSkills[i]))

\* C11 witness: the contract's example, users [{Coding}, {Coding, Design}],
\* gives Coding 2, Design 1 and 0 for the other catalog skills.
C11_Witness ==
    /\ dPc = "done"
    /\ dSkills = CatalogSkills
    /\ dUsers = <<[skills |-> JArray(<<"Coding">>)],
                  [skills |-> JArray(<<"Coding", "Design">>)]>>
    /\ dResult = [labels |-> CatalogSkills, data |-> <<2, 1, 0, 0>>]

----------------------------------------------------------------------------
(* Claims about the connection handle *)

\* The calls of connectToMongo that constructed a client and started connect().
Openers == {r \in Reqs : reqs[r].opened}

\* C12: over the whole life of the process and under every interleaving of
\* requests, at most one call of connectToMongo constructs the client and
\* starts its connect; once the client exists every later call leaves it in
\* place and constructs nothing, and no step of any request unsets it.
C12_ClientOpenedAtMostOnce ==
    /\ [](Cardinality(Openers) <= 1 /\ (client = "set" <=> Openers # {}))
    /\ [][client = "set" =>
              /\ client' = "set"
              /\ \A r \in Reqs : reqs'[r].opened = reqs[r].opened]_vars

\* C12 witness: a second request called connectToMongo while the first one's
\* connect() was still awaited, and went on without opening anything.
C12_Witness ==
    \E r, p \in Reqs :
        /\ reqs[r].pc = "connecting"
        /\ reqs[p].pc \notin {"idle", "connecting"}
        /\ ~reqs[p].opened

\* A request whose `await connectToMongo()` has returned: it has arrived, is
\* not waiting for connect(), and did not leave through a rejected connect().
PastConnect(r) ==
    /\ reqs[r].pc \notin {"idle", "connecting"}
    /\ reqs[r].fail # "connect"

\* C13 (as claimed): every request that has gone past connectToMongo holds a
\* defined db handle, also when it called connectToMongo while another
\* request's connect() was awaited or after a connection attempt failed.
C13_DbDefinedPastConnect ==
    \A r \in Reqs : PastConnect(r) => reqs[r].dbh = "ok"

----------------------------------------------------------------------------
(* Claims about the page's derived and session state *)

\* C14 (as claimed): once the effect on [userSkills, jobFilter] has run,
\* matchedJobs is the matcher's result for the current userSkills and
\* jobFilter; with userSkills empty it is empty and holds no job computed
\* for earlier skills.
C14_MatchedJobsFollowSkills ==
    /\ matchedJobs = FindMatchedJobs(PageCatalog, userSkills, jobFilter)
    /\ (userSkills = <<>> => matchedJobs = <<>>)

\* No callback of the page is pending: checkAuth has finished, and no fetch
\* of loadUserData or saveUserSkills is in flight.
CallbacksDone ==
    /\ checkAuth = "done"
    /\ \A l \in Loads : loads[l].phase \in {"idle", "done"}
    /\ \A k \in Saves : saves[k].phase # "pending"

\* C15 (as claimed): when the last auth event the page handled is a sign-out
\* and every pending callback has completed, user is null and userSkills is
\* empty, whatever the order of auth events and responses was.
C15_SignedOutStaysCleared ==
    (authEvent = "SIGNED_OUT" /\ CallbacksDone) =>
        (user = "none" /\ userSkills = <<>>)

====
